---- MODULE Spec2Model ----
(***************************************************************************)
(* Staff pay calculator (Google Apps Script, src/Code.js).                 *)
(*                                                                         *)
(* The MASTER sheet of the work log is the ledger, the Invoicing sheet     *)
(* receives one row per payee and invocation of createInvoice, the script  *)
(* properties hold the pending data of the spreadsheet menu's two-step     *)
(* flow.  Every web request and every menu click is one execution of the   *)
(* script; executions of different users overlap, and each call of the     *)
(* Spreadsheet service is one step of its execution.                       *)
(*                                                                         *)
(* A sheet row is modelled by the columns the script interprets (Status,   *)
(* Paid, Assign, STATS LEVEL) and by its Playback Link, which stands for   *)
(* the columns the script only copies; every row has a link of its own.    *)
(***************************************************************************)
EXTENDS Integers, Sequences, FiniteSets, TLC

\* ------------------------------------------------------------- bounds

\* Data rows of the MASTER sheet.
MaxRows == 2

\* Executions of the script started in one behaviour.
MaxRuns == 3

\* Data rows of the MASTER sheet where one execution's result is examined
\* over all sheets of that size.
MaxItems == 3

\* Days the invoicing executions are spread over.
MaxDays == 2

\* ---------------------------------------------------- program constants

\* The MASTER sheet's data starts below two header rows (for (let i = 2; ...)).
HeaderRows == 2

\* The value of the Paid column in lower case.
InvoicedMutantValue == "invoiced"

\* The value markWorkAsInvoiced writes into the Paid column.
InvoicedValue == "Invoiced"

SheetNames == {"Pay Config", "Staff Key to Staff name", "Invoicing"}

\* ------------------------------------------------------ sequence helpers

Range(s) == {s[i] : i \in DOMAIN s}

RECURSIVE SumSeq(_)
SumSeq(s) == IF s = <<>> THEN 0 ELSE Head(s) + SumSeq(Tail(s))

\* Index of the first element of s equal to x, 0 when there is none.
IndexOf(s, x) ==
    IF \E i \in DOMAIN s : s[i] = x
    THEN CHOOSE i \in DOMAIN s : s[i] = x /\ \A j \in 1..(i - 1) : s[j] # x
    ELSE 0

\* Set.add as the push of an array: the value is appended again.
SetAddAlways(s, x) == Append(s, x)

\* Set.add on a Set kept in insertion order.
SetAdd(s, x) == IF x \in Range(s) THEN s ELSE Append(s, x)

\* ------------------------------------------- getUnpaidWorkFromMaster

\* The eligibility test of one MASTER row, without the 'Invoiced' comparison.
IsUnpaidIgnoringInvoiced(row) == row.status = "Done" /\ row.paid # "Paid"

\* status === 'Done' && paid !== 'Paid' && paid !== 'Invoiced'
IsUnpaid(row) ==
    row.status = "Done" /\ row.paid # "Paid" /\ row.paid # "Invoiced"

\* The Playback Link cell of data row k: the link of that row's game.
PlaybackLinkOf(k) == k + HeaderRows

\* The object pushed for data row k: its 1-based sheet row and its columns.
WorkItem(row, k) ==
    [rowIndex |-> k + HeaderRows,
     staffName |-> row.staffName,
     taskType |-> row.taskType,
     playbackLink |-> PlaybackLinkOf(k)]

RECURSIVE UnpaidFrom(_, _)
UnpaidFrom(data, k) ==
    IF k > Len(data) THEN <<>>
    ELSE (IF IsUnpaid(data[k]) THEN <<WorkItem(data[k], k)>> ELSE <<>>)
         \o UnpaidFrom(data, k + 1)

\* data: the data rows of MASTER in sheet order (the two header rows cut).
getUnpaidWorkFromMaster(data) == UnpaidFrom(data, 1)

\* ------------------------------------------------ getPayConfiguration

NoRates == [k \in {} |-> 0]

\* One Pay Config row: the first row of a task type sets its default rate,
\* a row with a staff name and a custom rate adds a custom rate.
PayConfigRow(cfg, r) ==
    LET c1 == IF r.taskType \in DOMAIN cfg THEN cfg
              ELSE (r.taskType :> [defaultRate |-> r.defaultRate,
                                   customRates |-> NoRates]) @@ cfg
    IN  IF r.staffName # "" /\ r.customRate # 0
        THEN [c1 EXCEPT ![r.taskType].customRates =
                            (r.staffName :> r.customRate) @@ @]
        ELSE c1

RECURSIVE PayConfigFrom(_, _, _)
PayConfigFrom(data, i, cfg) ==
    IF i > Len(data) THEN cfg
    ELSE PayConfigFrom(data, i + 1, PayConfigRow(cfg, data[i]))

\* data: the rows of the Pay Config sheet below its header.
getPayConfiguration(data) == PayConfigFrom(data, 1, [t \in {} |-> 0])

\* ----------------------------------------------------- getStaffMapping

RECURSIVE StaffMappingFrom(_, _, _)
StaffMappingFrom(data, i, mapping) ==
    IF i > Len(data) THEN mapping
    ELSE StaffMappingFrom(data, i + 1,
            IF data[i].key # "" /\ data[i].name # ""
            THEN (data[i].key :> data[i].name) @@ mapping
            ELSE mapping)

\* data: the rows of the Staff Key to Staff name sheet below its header.
getStaffMapping(data) == StaffMappingFrom(data, 1, [k \in {} |-> ""])

\* --------------------------------------------------- calculatePayments

NoErrors ==
    [unmatchedTaskTypes |-> <<>>, unmatchedStaffKeys |-> <<>>,
     tasksWithNoRate |-> <<>>]

\* The rate resolution without the custom rates.
ResolveRateDefaultOnly(payConfig, taskType, staffKey) ==
    IF taskType \in DOMAIN payConfig
    THEN [rate |-> payConfig[taskType].defaultRate, rateSource |-> "default"]
    ELSE [rate |-> 0, rateSource |-> "none"]

\* The rate resolution with rateSource initialised to 'default'.
ResolveRateNoneAsDefault(payConfig, taskType, staffKey) ==
    IF taskType \in DOMAIN payConfig
    THEN IF staffKey \in DOMAIN payConfig[taskType].customRates
         THEN [rate |-> payConfig[taskType].customRates[staffKey],
               rateSource |-> "custom"]
         ELSE [rate |-> payConfig[taskType].defaultRate,
               rateSource |-> "default"]
    ELSE [rate |-> 0, rateSource |-> "default"]

\* The rate of one task: the custom rate of (type, staff) first, then the
\* default rate of the type, 0 with source 'none' for an unknown type.
ResolveRate(payConfig, taskType, staffKey) ==
    IF taskType \in DOMAIN payConfig
    THEN IF staffKey \in DOMAIN payConfig[taskType].customRates
         THEN [rate |-> payConfig[taskType].customRates[staffKey],
               rateSource |-> "custom"]
         ELSE [rate |-> payConfig[taskType].defaultRate,
               rateSource |-> "default"]
    ELSE [rate |-> 0, rateSource |-> "none"]

\* staffMapping[staffKey] without the fallback to the staff key.
LegalNameOrBlank(staffMapping, staffKey) ==
    IF staffKey \in DOMAIN staffMapping THEN staffMapping[staffKey] ELSE ""

\* The staff key itself as the key of the payments.
LegalNameIsStaffKey(staffMapping, staffKey) == staffKey

\* staffMapping[staffKey] || staffKey
LegalName(staffMapping, staffKey) ==
    IF staffKey \in DOMAIN staffMapping THEN staffMapping[staffKey]
    ELSE staffKey

\* The task pushed to a payment: the work item with its resolved rate.
ResolvedTask(work, r) ==
    [rowIndex |-> work.rowIndex, staffName |-> work.staffName,
     taskType |-> work.taskType, playbackLink |-> work.playbackLink,
     rate |-> r.rate,
     rateSource |-> r.rateSource, hasValidRate |-> r.rate > 0]

\* The body of the forEach with totalAmount = rate in place of += rate.
AddWorkOverwritingTotal(acc, work, payConfig, staffMapping) ==
    LET staffKey == work.staffName
        taskType == work.taskType
        r == ResolveRate(payConfig, taskType, staffKey)
        e1 == IF staffKey \in DOMAIN staffMapping THEN acc.errors
              ELSE [acc.errors EXCEPT
                      !.unmatchedStaffKeys = SetAdd(@, staffKey)]
        e2 == IF taskType \in DOMAIN payConfig THEN e1
              ELSE [e1 EXCEPT
                      !.unmatchedTaskTypes = SetAdd(@, taskType),
                      !.tasksWithNoRate =
                          Append(@, [staffName |-> staffKey,
                                     taskType |-> taskType])]
        legalName == LegalName(staffMapping, staffKey)
        at == IndexOf([i \in DOMAIN acc.payments |->
                          acc.payments[i].legalName], legalName)
        created == IF at # 0 THEN acc.payments
                   ELSE Append(acc.payments,
                               [staffKey |-> staffKey,
                                legalName |-> legalName,
                                hasMapping |-> staffKey \in DOMAIN staffMapping,
                                tasks |-> <<>>, totalAmount |-> 0])
        j == IF at # 0 THEN at ELSE Len(created)
    IN  [payments |-> [created EXCEPT
                         ![j].tasks = Append(@, ResolvedTask(work, r)),
                         ![j].totalAmount = r.rate],
         errors |-> e2]

\* The body of the forEach with a task of rate 0 left out of the payments.
AddWorkSkippingZeroRate(acc, work, payConfig, staffMapping) ==
    LET r == ResolveRate(payConfig, work.taskType, work.staffName)
        legalName == LegalName(staffMapping, work.staffName)
        at == IndexOf([i \in DOMAIN acc.payments |->
                          acc.payments[i].legalName], legalName)
        created == IF at # 0 THEN acc.payments
                   ELSE Append(acc.payments,
                               [staffKey |-> work.staffName,
                                legalName |-> legalName,
                                hasMapping |->
                                    work.staffName \in DOMAIN staffMapping,
                                tasks |-> <<>>, totalAmount |-> 0])
        j == IF at # 0 THEN at ELSE Len(created)
    IN  IF r.rate = 0 THEN acc
        ELSE [acc EXCEPT !.payments =
                 [created EXCEPT
                    ![j].tasks = Append(@, ResolvedTask(work, r)),
                    ![j].totalAmount = @ + r.rate]]

\* The body of workLogData.forEach: record the gaps, resolve the rate, find
\* or create the payment of the legal name, push the task, add the rate.
\* payments is the object's entries in insertion order.
AddWork(acc, work, payConfig, staffMapping) ==
    LET staffKey == work.staffName
        taskType == work.taskType
        r == ResolveRate(payConfig, taskType, staffKey)
        e1 == IF staffKey \in DOMAIN staffMapping THEN acc.errors
              ELSE [acc.errors EXCEPT
                      !.unmatchedStaffKeys = SetAdd(@, staffKey)]
        e2 == IF taskType \in DOMAIN payConfig THEN e1
              ELSE [e1 EXCEPT
                      !.unmatchedTaskTypes = SetAdd(@, taskType),
                      !.tasksWithNoRate =
                          Append(@, [staffName |-> staffKey,
                                     taskType |-> taskType])]
        legalName == LegalName(staffMapping, staffKey)
        at == IndexOf([i \in DOMAIN acc.payments |->
                          acc.payments[i].legalName], legalName)
        created == IF at # 0 THEN acc.payments
                   ELSE Append(acc.payments,
                               [staffKey |-> staffKey,
                                legalName |-> legalName,
                                hasMapping |-> staffKey \in DOMAIN staffMapping,
                                tasks |-> <<>>, totalAmount |-> 0])
        j == IF at # 0 THEN at ELSE Len(created)
    IN  [payments |-> [created EXCEPT
                         ![j].tasks = Append(@, ResolvedTask(work, r)),
                         ![j].totalAmount = @ + r.rate],
         errors |-> e2]

RECURSIVE CalculateFrom(_, _, _, _, _)
CalculateFrom(workLogData, i, acc, payConfig, staffMapping) ==
    IF i > Len(workLogData) THEN acc
    ELSE CalculateFrom(workLogData, i + 1,
                       AddWork(acc, workLogData[i], payConfig, staffMapping),
                       payConfig, staffMapping)

calculatePayments(workLogData, payConfig, staffMapping) ==
    CalculateFrom(workLogData, 1, [payments |-> <<>>, errors |-> NoErrors],
                  payConfig, staffMapping)

\* -------------------------------------------------------- createInvoice

\* The Invoicing sheet has its headers in row 2.
InvoiceHeaderRow == 2

\* The suffixes Math.floor(Math.random() * 1000) is drawn from, cut to two.
InvoiceSuffixes == {0, 1}

\* `INV-${dateStr}-${suffix padded to three digits}`: the day of the
\* timestamp and the suffix, both readable from the string.
InvoiceNumber(date, suffix) == [date |-> date, suffix |-> suffix]

\* The task types of a payment's tasks in the order of their first task
\* (the keys of tasksByType).
RECURSIVE TypesInOrder(_)
TypesInOrder(tasks) ==
    IF tasks = <<>> THEN <<>>
    ELSE LET rest == TypesInOrder(SubSeq(tasks, 1, Len(tasks) - 1))
         IN  SetAdd(rest, tasks[Len(tasks)].taskType)

\* Every task of the payment taken as a task of the type.
TasksOfTypeUnfiltered(tasks, type) == tasks

\* tasksByType[type]: the payment's tasks of one type, in their order.
TasksOfType(tasks, type) == SelectSeq(tasks, LAMBDA t : t.taskType = type)

\* "{count} x {type}", one per task type.
WorkDoneSummary(tasks) ==
    LET types == TypesInOrder(tasks)
    IN  [n \in DOMAIN types |->
            [count |-> Len(TasksOfType(tasks, types[n])), taskType |-> types[n]]]

\* The Playback Links cell: per task type the numbered links of its tasks.
PlaybackLinks(tasks) ==
    LET types == TypesInOrder(tasks)
    IN  [n \in DOMAIN types |->
            LET ts == TasksOfType(tasks, types[n])
            IN  [taskType |-> types[n], count |-> Len(ts),
                 links |-> [m \in DOMAIN ts |-> ts[m].playbackLink]]]

\* The row of one payment.  run is the execution that built the row: it
\* stands for the Date cell, the timestamp of the invocation.
InvoiceRow(payment, invoiceNumber, run) ==
    [invoiceNumber |-> invoiceNumber,
     contractor |-> payment.legalName,
     workDone |-> WorkDoneSummary(payment.tasks),
     total |-> payment.totalAmount,
     playbackLinks |-> PlaybackLinks(payment.tasks),
     run |-> run]

\* invoiceData followed by a row without a payee.
InvoiceDataWithBlankRow(payments, invoiceNumber, run) ==
    Append([n \in DOMAIN payments |->
               InvoiceRow(payments[n], invoiceNumber, run)],
           [invoiceNumber |-> invoiceNumber, contractor |-> "",
            workDone |-> <<>>, total |-> 0, playbackLinks |-> <<>>,
            run |-> run])

\* invoiceData with the invoice number drawn anew for every row.
InvoiceDataNumberedPerRow(payments, invoiceNumber, run) ==
    [n \in DOMAIN payments |->
        InvoiceRow(payments[n],
                   InvoiceNumber(invoiceNumber.date,
                                 invoiceNumber.suffix + n - 1), run)]

\* invoiceData: one row per entry of payments, all with the one number.
InvoiceData(payments, invoiceNumber, run) ==
    [n \in DOMAIN payments |-> InvoiceRow(payments[n], invoiceNumber, run)]

\* lastRow > headerRow ? lastRow + 1 : headerRow + 1, for a sheet whose rows
\* below the header are sheetRows.
NextInvoiceRow(sheetRows) ==
    LET lastRow == InvoiceHeaderRow + Len(sheetRows)
    IN  IF lastRow > InvoiceHeaderRow THEN lastRow + 1 ELSE InvoiceHeaderRow + 1

\* setValues of invoiceData at nextRow: the rows there are overwritten, the
\* sheet grows by the rows that are missing.
WriteInvoiceRows(sheetRows, nextRow, invoiceData) ==
    LET first == nextRow - InvoiceHeaderRow
        last == first + Len(invoiceData) - 1
        len == IF last > Len(sheetRows) THEN last ELSE Len(sheetRows)
    IN  [j \in 1..len |->
            IF j >= first /\ j <= last THEN invoiceData[j - first + 1]
            ELSE sheetRows[j]]

\* The MASTER rows (sheet row indices) an invoice row bills: the rows of the
\* links it lists.
RowsBilled(invoiceRow) ==
    {r \in {PlaybackLinkOf(k) : k \in 1..(MaxRows + MaxItems)} :
        \E n \in DOMAIN invoiceRow.playbackLinks :
            r \in Range(invoiceRow.playbackLinks[n].links)}

\* ---------------------------------------------------- markWorkAsInvoiced

\* setValue('Invoiced') with the 0-based index of the row: the row above.
SetInvoicedRowAbove(data, rowIndex) ==
    [data EXCEPT ![rowIndex - HeaderRows - 1].paid = InvoicedValue]

\* getRange(work.rowIndex, paidColumnIndex).setValue('Invoiced')
SetInvoiced(data, rowIndex) ==
    [data EXCEPT ![rowIndex - HeaderRows].paid = InvoicedValue]

\* ------------------------------------------------------------ responses

\* The reduce keeping the last payment's total in place of the sum.
GrandTotalOfLast(payments) ==
    IF payments = <<>> THEN 0 ELSE payments[Len(payments)].totalAmount

\* Object.values(payments).reduce((sum, p) => sum + p.totalAmount, 0)
GrandTotal(payments) ==
    SumSeq([n \in DOMAIN payments |-> payments[n].totalAmount])

\* The result of an empty selection in the shape of a caught error.
NoUnpaidWorkAsError == [success |-> FALSE, error |-> "No unpaid work found"]

\* The result of the operations when getUnpaidWorkFromMaster finds nothing.
NoUnpaidWork == [success |-> FALSE, message |-> "No unpaid work found"]

Failure(msg) == [success |-> FALSE, error |-> msg]

\* The response of handleCalculatePayRequest after createInvoice and
\* markWorkAsInvoiced.
CalculatePayResponse(workLogData, payments, errors) ==
    [success |-> TRUE,
     message |-> "Invoices created successfully",
     summary |-> [totalTasks |-> Len(workLogData),
                  totalStaff |-> Len(payments),
                  grandTotal |-> GrandTotal(payments),
                  errors |-> errors]]

\* The response of handleCalculatePayPreviewRequest: the payments rebuilt
\* field by field, with a taskCount.
PreviewResponse(workLogData, payments, errors) ==
    [success |-> TRUE,
     message |-> "Payment preview calculated successfully",
     summary |-> [totalTasks |-> Len(workLogData),
                  totalStaff |-> Len(payments),
                  grandTotal |-> GrandTotal(payments),
                  errors |-> errors],
     payments |-> [n \in DOMAIN payments |->
                     [staffKey |-> payments[n].staffKey,
                      legalName |-> payments[n].legalName,
                      hasMapping |-> payments[n].hasMapping,
                      totalAmount |-> payments[n].totalAmount,
                      taskCount |-> Len(payments[n].tasks),
                      tasks |-> [m \in DOMAIN payments[n].tasks |->
                                   LET task == payments[n].tasks[m]
                                   IN  [rowIndex |-> task.rowIndex,
                                        staffName |-> task.staffName,
                                        taskType |-> task.taskType,
                                        rate |-> task.rate,
                                        rateSource |-> task.rateSource,
                                        hasValidRate |-> task.hasValidRate]]]]]

\* The object calculateStaffPay returns.
CalculateStaffPayResult(workLogData, payments, errors) ==
    [success |-> TRUE,
     workLogData |-> workLogData,
     payments |-> payments,
     errors |-> errors,
     summary |-> [totalTasks |-> Len(workLogData),
                  totalStaff |-> Len(payments),
                  grandTotal |-> GrandTotal(payments)]]

StatusResponse(workLogData) ==
    [success |-> TRUE, status |-> [unpaidTasks |-> Len(workLogData)]]

\* The object createInvoicesAndMark returns after both steps.
CreateInvoicesAndMarkResult(invoiceResult) ==
    [success |-> TRUE,
     message |-> "Invoices created and work marked as invoiced",
     invoiceResult |-> invoiceResult]

\* ---------------------------------------------------------------- state

VARIABLES
    master,          \* the data rows of the MASTER sheet
    payConfigSheet,  \* the rows of the Pay Config sheet
    staffSheet,      \* the rows of the Staff Key to Staff name sheet
    sheets,          \* the sheets of the active spreadsheet that exist
    invoicing,       \* the rows of the Invoicing sheet below its header
    props,           \* script properties pendingWorkData, pendingPayments
    exec,            \* the executions of the script, one per slot
    runs,            \* executions started so far
    today            \* the day of the script's time zone, counted from 1

vars ==
    <<master, payConfigSheet, staffSheet, sheets, invoicing, props, exec, runs,
      today>>

\* Two executions may overlap.
Procs == {1, 2}

\* handleCalculatePayRequest, doPost 'createInvoicesAndMark', and the menu's
\* createInvoicesAndMarkUI create invoices and mark the work.
CommitOps == {"calculatePay", "postCreateInvoicesAndMark",
              "createInvoicesAndMarkUI"}

\* handleCalculatePayPreviewRequest, calculateStaffPay (doPost
\* 'calculateStaffPay' without the preview flag) and handleStatusRequest.
PreviewOps == {"preview", "calculateStaffPay", "getStatus"}

Ops == CommitOps \cup PreviewOps \cup {"calculateStaffPayUI"}

\* The operations that write to a sheet or to the script properties.
WritingOps == CommitOps \cup {"calculateStaffPayUI"}

\* The operations that call createInvoicesAndMark(workLogData, payments).
CreateInvoicesAndMarkOps == {"postCreateInvoicesAndMark",
                             "createInvoicesAndMarkUI"}

NoProps == [pendingWorkData |-> <<>>, pendingPayments |-> <<>>]

\* wrote: the setValue calls of this execution on the Paid column, each with
\* the value the cell held before it.  afterSuccess: the execution that used
\* the slot before this one was a handleCalculatePayRequest that succeeded.
IdleExec ==
    [op |-> "none", pc |-> "idle", run |-> 0,
     workLogData |-> <<>>, payments |-> <<>>, errors |-> NoErrors,
     nextRow |-> 0, invoiceData |-> <<>>, invoiceResult |-> <<>>,
     i |-> 0, wrote |-> {}, result |-> [success |-> FALSE],
     afterSuccess |-> FALSE]

\* An execution returns: its response, and for createInvoicesAndMarkUI the
\* deleteProperty calls that follow createInvoicesAndMark whatever it returned.
Finished(e, res) == [e EXCEPT !.pc = "done", !.result = res]

PropsAfter(e, p) == IF e.op = "createInvoicesAndMarkUI" THEN NoProps ELSE p

\* What the caller of createInvoicesAndMark makes of its result: doPost adds
\* the summary of its calculateStaffPay, the menu shows it.
CreateInvoicesAndMarkResponse(e, res) ==
    IF e.op = "postCreateInvoicesAndMark"
    THEN res @@ [summary |-> [totalTasks |-> Len(e.workLogData),
                              totalStaff |-> Len(e.payments),
                              grandTotal |-> GrandTotal(e.payments)]]
    ELSE res

\* A failed createInvoice continuing with markWorkAsInvoiced.
InvoiceFailedThenMark(e, msg) == [e EXCEPT !.pc = "mark", !.i = 1]

\* createInvoice throws: the catch block returns the error, and
\* markWorkAsInvoiced is not reached.
InvoiceFailed(e, msg) ==
    Finished(e, CreateInvoicesAndMarkResponse(e, Failure(msg)))

\* Every operation goes on to createInvoice after calculatePayments.
AfterCalculateAlwaysInvoice(e, res) == [e EXCEPT !.pc = "invoiceBegin"]

\* After calculatePayments: the commit operations go on to createInvoice,
\* calculateStaffPayUI stores the pending data, the others return.
AfterCalculate(e, res) ==
    CASE e.op \in CommitOps -> [e EXCEPT !.pc = "invoiceBegin"]
      [] e.op = "calculateStaffPayUI" -> [e EXCEPT !.pc = "store"]
      [] OTHER -> Finished(e, res)

\* ------------------------------------------------------------- actions

\* An execution starts, a web request or a menu click, in the first slot
\* that is free.
Start(p, o) ==
    /\ exec[p].pc \in {"idle", "done"}
    /\ \A q \in Procs : q < p => exec[q].pc \notin {"idle", "done"}
    /\ runs < MaxRuns
    /\ runs' = runs + 1
    /\ exec' = [exec EXCEPT ![p] =
                  [IdleExec EXCEPT
                     !.op = o, !.run = runs + 1,
                     !.afterSuccess = (exec[p].op = "calculatePay"
                                          /\ exec[p].pc = "done"
                                          /\ exec[p].result.success),
                     !.pc = IF o = "createInvoicesAndMarkUI"
                            THEN "readPending" ELSE "select"]]
    /\ UNCHANGED <<master, payConfigSheet, staffSheet, sheets, invoicing, props,
                       today>>

\* getUnpaidWorkFromMaster, and the return when it finds nothing.
Select(p) ==
    LET e == exec[p]
        w == getUnpaidWorkFromMaster(master)
        found == [e EXCEPT !.workLogData = w]
    IN  /\ e.pc = "select"
        /\ exec' = [exec EXCEPT ![p] =
                      IF e.op = "getStatus"
                      THEN Finished(found, StatusResponse(w))
                      ELSE IF w = <<>> THEN Finished(found, NoUnpaidWork)
                      ELSE [found EXCEPT !.pc = "config"]]
        /\ UNCHANGED <<master, payConfigSheet, staffSheet, sheets, invoicing,
                       props, runs,
                       today>>

\* getPayConfiguration, getStaffMapping, calculatePayments, and what the
\* operation does with the payments without touching a sheet.
LoadConfigAndCalculate(p) ==
    LET e == exec[p]
        c == calculatePayments(e.workLogData,
                               getPayConfiguration(payConfigSheet),
                               getStaffMapping(staffSheet))
        calc == [e EXCEPT !.payments = c.payments, !.errors = c.errors]
        res == IF e.op = "preview"
               THEN PreviewResponse(e.workLogData, c.payments, c.errors)
               ELSE CalculateStaffPayResult(e.workLogData, c.payments, c.errors)
    IN  /\ e.pc = "config"
        /\ exec' = [exec EXCEPT ![p] =
                      IF "Pay Config" \notin sheets
                      THEN Finished(e, Failure("Pay Config sheet not found"))
                      ELSE IF "Staff Key to Staff name" \notin sheets
                      THEN Finished(e,
                             Failure("Staff Key to Staff name sheet not found"))
                      ELSE AfterCalculate(calc, res)]
        /\ UNCHANGED <<master, payConfigSheet, staffSheet, sheets, invoicing,
                       props, runs,
                       today>>

\* calculateStaffPayUI stores the work data and the payments for the menu's
\* Create Invoices.  JSON.stringify and JSON.parse keep the modelled fields
\* (numbers, strings, booleans) as they are.
StorePending(p) ==
    LET e == exec[p]
    IN  /\ e.pc = "store"
        /\ props' = [pendingWorkData |-> e.workLogData,
                     pendingPayments |-> e.payments]
        /\ exec' = [exec EXCEPT ![p] =
                      Finished(e, CalculateStaffPayResult(e.workLogData,
                                                          e.payments, e.errors))]
        /\ UNCHANGED <<master, payConfigSheet, staffSheet, sheets, invoicing, runs,
                       today>>

\* createInvoicesAndMarkUI reads the pending data; createInvoicesAndMark
\* refuses empty work data and empty payments.
ReadPending(p) ==
    LET e == exec[p]
        got == [e EXCEPT !.workLogData = props.pendingWorkData,
                         !.payments = props.pendingPayments]
        empty == props.pendingWorkData = <<>> \/ props.pendingPayments = <<>>
    IN  /\ e.pc = "readPending"
        /\ exec' = [exec EXCEPT ![p] =
                      IF props.pendingWorkData = <<>>
                      THEN Finished(got, Failure("No work data provided"))
                      ELSE IF props.pendingPayments = <<>>
                      THEN Finished(got, Failure("No payment data provided"))
                      ELSE [got EXCEPT !.pc = "invoiceBegin"]]
        /\ props' = IF empty THEN NoProps ELSE props
        /\ UNCHANGED <<master, payConfigSheet, staffSheet, sheets, invoicing, runs,
                       today>>

\* createInvoice up to its writes: the sheet, the next free row, the invoice
\* number, the rows.
CreateInvoiceBegin(p) ==
    LET e == exec[p]
    IN  /\ e.pc = "invoiceBegin"
        /\ IF "Invoicing" \notin sheets
           THEN /\ exec' = [exec EXCEPT ![p] =
                              InvoiceFailed(e, "Invoicing sheet not found")]
                /\ props' = IF exec'[p].pc = "done" THEN PropsAfter(e, props)
                            ELSE props
           ELSE /\ \E suffix \in InvoiceSuffixes :
                     exec' = [exec EXCEPT ![p] =
                                [e EXCEPT
                                   !.pc = "invoiceWrite",
                                   !.nextRow = NextInvoiceRow(invoicing),
                                   !.invoiceData =
                                       InvoiceData(e.payments,
                                                   InvoiceNumber(today, suffix),
                                                   e.run)]]
                /\ props' = props
        /\ UNCHANGED <<master, payConfigSheet, staffSheet, sheets, invoicing, runs,
                       today>>

\* createInvoice writes its rows at the row it found and returns.  The
\* setValues calls, one per column, are taken as one write.
CreateInvoiceWrite(p) ==
    LET e == exec[p]
    IN  /\ e.pc = "invoiceWrite"
        /\ invoicing' = WriteInvoiceRows(invoicing, e.nextRow, e.invoiceData)
        /\ exec' = [exec EXCEPT ![p] =
                      [e EXCEPT
                         !.pc = "mark", !.i = 1,
                         !.invoiceResult =
                             <<[invoiceNumber |-> e.invoiceData[1].invoiceNumber,
                                rowsCreated |-> Len(e.invoiceData)]>>]]
        /\ UNCHANGED <<master, payConfigSheet, staffSheet, sheets, props, runs, today>>

\* A call of the Spreadsheet service in createInvoice's writes throws.
CreateInvoiceThrow(p) ==
    LET e == exec[p]
    IN  /\ e.pc = "invoiceWrite"
        /\ exec' = [exec EXCEPT ![p] = InvoiceFailed(e, "Service error")]
        /\ props' = IF exec'[p].pc = "done" THEN PropsAfter(e, props) ELSE props
        /\ UNCHANGED <<master, payConfigSheet, staffSheet, sheets, invoicing, runs,
                       today>>

\* One turn of markWorkAsInvoiced's forEach: setValue('Invoiced') on the Paid
\* cell of the item's row.
MarkStep(p) ==
    LET e == exec[p]
        rowIndex == e.workLogData[e.i].rowIndex
    IN  /\ e.pc = "mark"
        /\ e.i <= Len(e.workLogData)
        /\ master' = SetInvoiced(master, rowIndex)
        /\ exec' = [exec EXCEPT ![p] =
                      [e EXCEPT
                         !.i = e.i + 1,
                         !.wrote = @ \cup
                            {[rowIndex |-> rowIndex,
                              before |-> master[rowIndex - HeaderRows].paid]}]]
        /\ UNCHANGED <<payConfigSheet, staffSheet, sheets, invoicing, props, runs,
                       today>>

\* setValue throws: the catch block of the operation returns the error.
MarkThrow(p) ==
    LET e == exec[p]
    IN  /\ e.pc = "mark"
        /\ e.i <= Len(e.workLogData)
        /\ exec' = [exec EXCEPT ![p] =
                      Finished(e, CreateInvoicesAndMarkResponse(
                                      e, Failure("Service error")))]
        /\ props' = PropsAfter(e, props)
        /\ UNCHANGED <<master, payConfigSheet, staffSheet, sheets, invoicing, runs,
                       today>>

\* markWorkAsInvoiced returned: the operation's response.
Return(p) ==
    LET e == exec[p]
    IN  /\ e.pc = "mark"
        /\ e.i > Len(e.workLogData)
        /\ exec' = [exec EXCEPT ![p] =
                      Finished(e,
                        IF e.op = "calculatePay"
                        THEN CalculatePayResponse(e.workLogData, e.payments,
                                                  e.errors)
                        ELSE CreateInvoicesAndMarkResponse(e,
                               CreateInvoicesAndMarkResult(e.invoiceResult[1])))]
        /\ props' = PropsAfter(e, props)
        /\ UNCHANGED <<master, payConfigSheet, staffSheet, sheets, invoicing, runs,
                       today>>

\* The date of the script's time zone changes.
Midnight ==
    /\ today < MaxDays
    /\ today' = today + 1
    /\ UNCHANGED <<master, payConfigSheet, staffSheet, sheets, invoicing, props,
                   exec, runs>>

\* -------------------------------------------------------- specifications

\* The Pay Config and staff sheets of the system specifications.
DefaultPayConfigSheet ==
    <<[taskType |-> "Basic", defaultRate |-> 100, staffName |-> "",
       customRate |-> 0],
      [taskType |-> "Basic", defaultRate |-> 100, staffName |-> "S2",
       customRate |-> 150]>>

DefaultStaffSheet ==
    <<[key |-> "S1", name |-> "Ann"], [key |-> "S2", name |-> "Bob"]>>

\* Rows that are open, done and unpaid, or done and paid by hand.
SystemRows ==
    {r \in [status : {"Done", "Open"}, paid : {"", "Paid"},
            staffName : {"S1", "S2"}, taskType : {"Basic"}] :
        r.status = "Done" \/ r.paid = ""}

Init ==
    /\ master \in [1..MaxRows -> SystemRows]
    /\ payConfigSheet = DefaultPayConfigSheet
    /\ staffSheet = DefaultStaffSheet
    /\ sheets \in SUBSET SheetNames
    /\ invoicing = <<>>
    /\ props = NoProps
    /\ exec = [p \in Procs |-> IdleExec]
    /\ runs = 0
    /\ today = 1

Next ==
    \E p \in Procs :
        \/ \E o \in WritingOps : Start(p, o)
        \/ Select(p)
        \/ LoadConfigAndCalculate(p)
        \/ StorePending(p)
        \/ ReadPending(p)
        \/ CreateInvoiceBegin(p)
        \/ CreateInvoiceWrite(p)
        \/ CreateInvoiceThrow(p)
        \/ MarkStep(p)
        \/ MarkThrow(p)
        \/ Return(p)

\* Overlapping executions of the operations that write.
Spec == Init /\ [][Next]_vars

\* One execution at a time, of every operation.
NextSeq ==
    \E p \in {1} :
        \/ \E o \in Ops : Start(p, o)
        \/ Select(p)
        \/ LoadConfigAndCalculate(p)
        \/ StorePending(p)
        \/ ReadPending(p)
        \/ CreateInvoiceBegin(p)
        \/ CreateInvoiceWrite(p)
        \/ CreateInvoiceThrow(p)
        \/ MarkStep(p)
        \/ MarkThrow(p)
        \/ Return(p)

SpecSeq == Init /\ [][NextSeq]_vars

\* Selection alone, over every status and Paid value of every row.
SelectRows ==
    [status : {"Done", "done", ""},
     paid : {"", "Paid", "Invoiced", "paid", "Unpaid"},
     staffName : {"S1"}, taskType : {"Basic"}]

InitSelect ==
    /\ master \in [1..MaxItems -> SelectRows]
    /\ payConfigSheet = DefaultPayConfigSheet
    /\ staffSheet = DefaultStaffSheet
    /\ sheets = SheetNames
    /\ invoicing = <<>>
    /\ props = NoProps
    /\ exec = [p \in Procs |-> IdleExec]
    /\ runs = 0
    /\ today = 1

NextSelect == Start(1, "getStatus") \/ Select(1)

SpecSelect == InitSelect /\ [][NextSelect]_vars

\* calculateStaffPay over every list of unpaid rows with every assignment of
\* staff keys and task types, and several rate tables and staff directories.  The staff key
\* "Ann" is also a legal name.  The cell values are ordinary names: none is
\* the name of a member every JavaScript object inherits ('constructor').
CalcRows ==
    [status : {"Done"}, paid : {""},
     staffName : {"S1", "S2", "Ann"}, taskType : {"Basic", "Pro"}]

PayConfigSheets ==
    {<<>>,
     DefaultPayConfigSheet,
     <<[taskType |-> "Basic", defaultRate |-> 0, staffName |-> "",
        customRate |-> 0],
       [taskType |-> "Pro", defaultRate |-> 200, staffName |-> "S1",
        customRate |-> 250],
       [taskType |-> "Pro", defaultRate |-> 300, staffName |-> "",
        customRate |-> 0]>>,
     <<[taskType |-> "Basic", defaultRate |-> 100, staffName |-> "S1",
        customRate |-> 0],
       [taskType |-> "Basic", defaultRate |-> 120, staffName |-> "S1",
        customRate |-> 130],
       [taskType |-> "Basic", defaultRate |-> 110, staffName |-> "S1",
        customRate |-> 140]>>}

StaffSheets ==
    {DefaultStaffSheet,
     <<[key |-> "S1", name |-> "Ann"], [key |-> "S2", name |-> "Ann"]>>,
     <<[key |-> "S1", name |-> "Ann"], [key |-> "", name |-> "Nobody"],
       [key |-> "S2", name |-> ""]>>}

InitCalc ==
    /\ master \in UNION {[1..n -> CalcRows] : n \in 0..MaxItems}
    /\ payConfigSheet \in PayConfigSheets
    /\ staffSheet \in StaffSheets
    /\ sheets = SheetNames
    /\ invoicing = <<>>
    /\ props = NoProps
    /\ exec = [p \in Procs |-> IdleExec]
    /\ runs = 0
    /\ today = 1

NextCalc ==
    \/ \E o \in {"calculateStaffPay", "preview"} : Start(1, o)
    \/ Select(1)
    \/ LoadConfigAndCalculate(1)

SpecCalc == InitCalc /\ [][NextCalc]_vars

\* The operations that create invoices, one execution at a time, on one day
\* or over several, with every sheet in place.
InvoiceRows ==
    [status : {"Done"}, paid : {""}, staffName : {"S1", "S2"},
     taskType : {"Basic"}]

InitInvoice ==
    /\ master \in [1..MaxRows -> InvoiceRows]
    /\ payConfigSheet = DefaultPayConfigSheet
    /\ staffSheet = DefaultStaffSheet
    /\ sheets = SheetNames
    /\ invoicing = <<>>
    /\ props = NoProps
    /\ exec = [p \in Procs |-> IdleExec]
    /\ runs = 0
    /\ today = 1

NextInvoice ==
    \/ \E o \in WritingOps : Start(1, o)
    \/ Select(1)
    \/ LoadConfigAndCalculate(1)
    \/ StorePending(1)
    \/ ReadPending(1)
    \/ CreateInvoiceBegin(1)
    \/ CreateInvoiceWrite(1)
    \/ CreateInvoiceThrow(1)
    \/ MarkStep(1)
    \/ MarkThrow(1)
    \/ Return(1)
    \/ Midnight

SpecInvoice == InitInvoice /\ [][NextInvoice]_vars

\* The commits of the web requests, one execution at a time, over rows of a
\* task type that has a rate and of one that has none.
CommitRows ==
    [status : {"Done", "Open"}, paid : {""}, staffName : {"S1", "S2"},
     taskType : {"Basic", "Pro"}]

InitCommit ==
    /\ master \in [1..MaxRows -> CommitRows]
    /\ payConfigSheet = DefaultPayConfigSheet
    /\ staffSheet \in {DefaultStaffSheet,
                       <<[key |-> "S1", name |-> "Ann"],
                         [key |-> "S2", name |-> "Ann"]>>}
    /\ sheets = SheetNames
    /\ invoicing = <<>>
    /\ props = NoProps
    /\ exec = [p \in Procs |-> IdleExec]
    /\ runs = 0
    /\ today = 1

NextCommit ==
    \/ \E o \in {"calculatePay", "postCreateInvoicesAndMark"} : Start(1, o)
    \/ Select(1)
    \/ LoadConfigAndCalculate(1)
    \/ CreateInvoiceBegin(1)
    \/ CreateInvoiceWrite(1)
    \/ CreateInvoiceThrow(1)
    \/ MarkStep(1)
    \/ MarkThrow(1)
    \/ Return(1)

SpecCommit == InitCommit /\ [][NextCommit]_vars

\* A preview and a calculateStaffPay over the same sheets, neither of which
\* writes, side by side.
InitParity ==
    /\ master \in [1..MaxRows -> CalcRows]
    /\ payConfigSheet \in PayConfigSheets
    /\ staffSheet \in StaffSheets
    /\ sheets = SheetNames
    /\ invoicing = <<>>
    /\ props = NoProps
    /\ exec = [p \in Procs |-> IdleExec]
    /\ runs = 0
    /\ today = 1

NextParity ==
    \E p \in Procs :
        \/ \E o \in {"preview", "calculateStaffPay"} : Start(p, o)
        \/ Select(p)
        \/ LoadConfigAndCalculate(p)

SpecParity == InitParity /\ [][NextParity]_vars

\* ------------------------------------------------------------- claims

\* The MASTER rows (sheet row indices) of a list of work items or tasks.
RowsOf(items) == {items[n].rowIndex : n \in DOMAIN items}

\* The executions that billed MASTER row r in a row of the Invoicing sheet.
BatchesBilling(r) ==
    {invoicing[j].run : j \in {n \in DOMAIN invoicing :
                                  r \in RowsBilled(invoicing[n])}}

MasterRowIndices == {k + HeaderRows : k \in DOMAIN master}

\* C1: whatever operations ran and however they interleaved, every MASTER
\* row is billed in the invoice rows of at most one invocation.
C1_AtMostOneBatch ==
    \A r \in MasterRowIndices : Cardinality(BatchesBilling(r)) <= 1

\* A handleCalculatePayRequest that returned success.
CommittedOk(e) ==
    e.op = "calculatePay" /\ e.pc = "done" /\ e.result.success

\* C2: two overlapping handleCalculatePayRequest executions that both
\* succeed bill no MASTER row twice: their batches are disjoint.
C2_ConcurrentCommitsDisjoint ==
    \A p, q \in Procs :
        (p # q /\ CommittedOk(exec[p]) /\ CommittedOk(exec[q]))
            => RowsOf(exec[p].workLogData) \cap RowsOf(exec[q].workLogData) = {}

\* C3: markWorkAsInvoiced never calls setValue on a Paid cell that holds
\* "Paid" or "Invoiced" at that moment: it re-checks and skips.
C3_MarkSkipsClaimedRows ==
    \A p \in Procs :
        \A w \in exec[p].wrote : w.before \notin {"Paid", "Invoiced"}

\* C4: a handleCalculatePayRequest that follows a successful one, with no
\* other execution in between, finds no unpaid work, returns 'No unpaid work
\* found', creates no invoice row and writes nothing to MASTER.
C4_SecondCommitDoesNothing ==
    \A p \in Procs :
        LET e == exec[p]
        IN  (e.afterSuccess /\ e.op = "calculatePay" /\ e.pc # "select")
                => /\ e.pc = "done"
                   /\ e.workLogData = <<>>
                   /\ e.result = NoUnpaidWork
                   /\ e.invoiceResult = <<>>
                   /\ e.wrote = {}
                   /\ \A j \in DOMAIN invoicing : invoicing[j].run # e.run

\* A second handleCalculatePayRequest has returned after a first one that
\* invoiced work.
C4_Witness ==
    \E p \in Procs :
        /\ exec[p].afterSuccess
        /\ exec[p].op = "calculatePay"
        /\ exec[p].pc = "done"
        /\ invoicing # <<>>
        /\ \E k \in DOMAIN master : master[k].paid = "Invoiced"

\* C5: an execution has written to the Paid column only after its
\* createInvoice returned; one that failed before that wrote nothing.
C5_MarkOnlyAfterInvoice ==
    \A p \in Procs :
        /\ exec[p].wrote # {} => exec[p].invoiceResult # <<>>
        /\ (exec[p].pc = "done" /\ exec[p].invoiceResult = <<>>)
               => exec[p].wrote = {}

\* A commit operation with unpaid work failed in createInvoice and wrote
\* nothing to MASTER.
C5_Witness ==
    \E p \in Procs :
        /\ exec[p].op \in CommitOps
        /\ exec[p].pc = "done"
        /\ exec[p].workLogData # <<>>
        /\ ~exec[p].result.success
        /\ exec[p].result.error \in {"Invoicing sheet not found",
                                     "Service error"}
        /\ exec[p].invoiceResult = <<>>
        /\ exec[p].wrote = {}
        /\ \A k \in DOMAIN master : master[k].paid # "Invoiced"

\* The rows of an execution's work items it did not set to 'Invoiced'.
NotUpdated(e) == RowsOf(e.workLogData) \ {w.rowIndex : w \in e.wrote}

\* C6: when markWorkAsInvoiced fails after it updated some rows and before
\* it updated the others, the response names exactly the rows not updated.
C6_PartialFailureReportsRows ==
    \A p \in Procs :
        LET e == exec[p]
        IN  (e.op \in CommitOps /\ e.pc = "done" /\ ~e.result.success
                /\ e.wrote # {} /\ NotUpdated(e) # {})
                => /\ "notUpdated" \in DOMAIN e.result
                   /\ e.result.notUpdated = NotUpdated(e)

\* Every work item of the list is marked 'Invoiced' in MASTER.
AllInvoiced(workLogData) ==
    \A n \in DOMAIN workLogData :
        master[workLogData[n].rowIndex - HeaderRows].paid = "Invoiced"

\* C7: createInvoicesAndMark called with work items that are all marked
\* 'Invoiced' in MASTER writes no invoice row and does not change MASTER.
C7_ReinvoiceIsNoOp ==
    [][\A p \in Procs :
          (/\ exec[p].op \in CreateInvoicesAndMarkOps
           /\ exec[p].pc \in {"invoiceWrite", "mark"}
           /\ exec'[p] # exec[p]
           /\ AllInvoiced(exec[p].workLogData))
              => invoicing' = invoicing /\ master' = master]_vars

\* C8: a step of a preview operation changes neither MASTER nor the
\* Invoicing sheet.
C8_PreviewWritesNothing ==
    [][\A p \in Procs :
          (exec[p].op \in PreviewOps /\ exec[p].pc \notin {"idle", "done"}
               /\ exec'[p] # exec[p])
              => master' = master /\ invoicing' = invoicing]_vars

\* A preview returned its payments and the work it listed is still unpaid.
C8_Witness ==
    \E p \in Procs :
        /\ exec[p].op \in {"preview", "calculateStaffPay"}
        /\ exec[p].pc = "done"
        /\ exec[p].result.success
        /\ exec[p].payments # <<>>
        /\ getUnpaidWorkFromMaster(master) = exec[p].workLogData
        /\ invoicing = <<>>

\* C9: the list getUnpaidWorkFromMaster returns holds, in sheet order and
\* once each, exactly the rows with status "Done" whose Paid value is neither
\* "Paid" nor "Invoiced", each with its row index and its columns.
C9_SelectsExactlyEligibleRows ==
    \A p \in Procs :
        LET e == exec[p]
            w == e.workLogData
        IN  (e.op = "getStatus" /\ e.pc = "done")
                => /\ \A m, n \in DOMAIN w :
                          m < n => w[m].rowIndex < w[n].rowIndex
                   /\ RowsOf(w) =
                          {k + 2 : k \in {j \in DOMAIN master :
                               /\ master[j].status = "Done"
                               /\ master[j].paid \notin {"Paid", "Invoiced"}}}
                   /\ \A n \in DOMAIN w :
                          /\ w[n].staffName = master[w[n].rowIndex - 2].staffName
                          /\ w[n].taskType = master[w[n].rowIndex - 2].taskType
                   /\ e.result = StatusResponse(w)

\* A selection took a row whose Paid value is "paid" and one whose value is
\* blank, and left out a row marked "Invoiced".
C9_Witness ==
    \E p \in Procs :
        /\ exec[p].op = "getStatus"
        /\ exec[p].pc = "done"
        /\ Len(exec[p].workLogData) = 2
        /\ \E a, b, c \in DOMAIN master :
              /\ master[a].status = "Done" /\ master[a].paid = "paid"
              /\ master[b].status = "Done" /\ master[b].paid = ""
              /\ master[c].status = "Done" /\ master[c].paid = "Invoiced"

\* The places <<n, m>> of the payments' task lists that hold MASTER row r.
PlacesOf(payments, r) ==
    {pl \in UNION {{<<n, m>> : m \in DOMAIN payments[n].tasks} :
                       n \in DOMAIN payments} :
        payments[pl[1]].tasks[pl[2]].rowIndex = r}

\* C10: every work item is in the task list of exactly one payment, the one
\* of its resolved legal name, with its own staff key and task type, and the
\* payments hold as many tasks as there are work items.
C10_EveryItemInOnePayment ==
    \A p \in Procs :
        LET e == exec[p]
            w == e.workLogData
            pay == e.payments
        IN  (e.op = "calculateStaffPay" /\ e.pc = "done" /\ e.result.success)
                => /\ SumSeq([n \in DOMAIN pay |-> Len(pay[n].tasks)]) = Len(w)
                   /\ \A i \in DOMAIN w :
                        /\ Cardinality(PlacesOf(pay, w[i].rowIndex)) = 1
                        /\ \A pl \in PlacesOf(pay, w[i].rowIndex) :
                             /\ pay[pl[1]].legalName =
                                    LegalName(getStaffMapping(staffSheet),
                                              w[i].staffName)
                             /\ pay[pl[1]].tasks[pl[2]].staffName = w[i].staffName
                             /\ pay[pl[1]].tasks[pl[2]].taskType = w[i].taskType

\* Payments were calculated for three work items, one of them with rate 0
\* and an unmatched task type, one with an unmatched staff key.
C10_Witness ==
    \E p \in Procs :
        /\ exec[p].op = "calculateStaffPay"
        /\ exec[p].pc = "done"
        /\ exec[p].result.success
        /\ Len(exec[p].workLogData) = 3
        /\ exec[p].errors.unmatchedTaskTypes # <<>>
        /\ exec[p].errors.unmatchedStaffKeys # <<>>
        /\ \E n \in DOMAIN exec[p].payments :
              \E m \in DOMAIN exec[p].payments[n].tasks :
                  exec[p].payments[n].tasks[m].rate = 0

\* An execution that calculated payments and returned them.
Calculated(e) ==
    e.op \in {"calculateStaffPay", "preview"} /\ e.pc = "done" /\ e.result.success

\* The tasks of a list of payments.
TasksOf(payments) ==
    UNION {Range(payments[n].tasks) : n \in DOMAIN payments}

\* The Pay Config sheet read row by row: the rows of a task type, the rows
\* giving a staff key a custom rate for it.
RateRows(taskType) ==
    {i \in DOMAIN payConfigSheet : payConfigSheet[i].taskType = taskType}

CustomRateRows(taskType, staffKey) ==
    {i \in RateRows(taskType) :
        /\ payConfigSheet[i].staffName = staffKey
        /\ staffKey # ""
        /\ payConfigSheet[i].customRate # 0}

Lowest(S) == CHOOSE i \in S : \A j \in S : i <= j

Highest(S) == CHOOSE i \in S : \A j \in S : i >= j

\* The rate the sheet gives (task type, staff key): the custom rate of the
\* last row that sets one, else the default rate of the type's first row,
\* else 0.
SheetRate(taskType, staffKey) ==
    IF RateRows(taskType) = {} THEN 0
    ELSE IF CustomRateRows(taskType, staffKey) # {}
    THEN payConfigSheet[Highest(CustomRateRows(taskType, staffKey))].customRate
    ELSE payConfigSheet[Lowest(RateRows(taskType))].defaultRate

\* C11: the totalAmount of every payment calculatePayments returns is the
\* sum of the rates of the tasks in its task list.
C11_TotalIsSumOfTaskRates ==
    \A p \in Procs :
        Calculated(exec[p]) =>
            \A n \in DOMAIN exec[p].payments :
                LET pay == exec[p].payments[n]
                IN  pay.totalAmount =
                        SumSeq([m \in DOMAIN pay.tasks |-> pay.tasks[m].rate])

\* A payment holds two tasks of different rates above zero.
C11_Witness ==
    \E p \in Procs :
        /\ Calculated(exec[p])
        /\ \E n \in DOMAIN exec[p].payments :
              \E a, b \in DOMAIN exec[p].payments[n].tasks :
                  LET tasks == exec[p].payments[n].tasks
                  IN  a < b /\ tasks[a].rate > 0 /\ tasks[b].rate > 0
                            /\ tasks[a].rate # tasks[b].rate

\* C12: the grandTotal of the summary, the sum of the payments' totalAmount,
\* is the sum over the selected work items of the rate the Pay Config sheet
\* gives each of them.
C12_GrandTotalIsSumOfItemRates ==
    \A p \in Procs :
        LET e == exec[p]
            w == e.workLogData
            expected == SumSeq([i \in DOMAIN w |->
                                   SheetRate(w[i].taskType, w[i].staffName)])
        IN  Calculated(e) =>
                /\ e.result.summary.grandTotal = expected
                /\ SumSeq([n \in DOMAIN e.payments |->
                              e.payments[n].totalAmount]) = expected

\* Three work items went to two payments or more, and the grand total is
\* more than any one payment's total.
C12_Witness ==
    \E p \in Procs :
        /\ Calculated(exec[p])
        /\ Len(exec[p].workLogData) = 3
        /\ Len(exec[p].payments) >= 2
        /\ \A n \in DOMAIN exec[p].payments :
              /\ exec[p].payments[n].totalAmount > 0
              /\ exec[p].payments[n].totalAmount
                     < exec[p].result.summary.grandTotal

\* C13: a task whose type has a row in Pay Config has the custom rate of its
\* staff key for that type, with rateSource "custom", when the sheet sets
\* one, and the default rate of the type, with rateSource "default", when
\* it sets none.
C13_CustomRateFirst ==
    \A p \in Procs :
        Calculated(exec[p]) =>
            \A t \in TasksOf(exec[p].payments) :
                RateRows(t.taskType) # {} =>
                    IF CustomRateRows(t.taskType, t.staffName) # {}
                    THEN /\ t.rateSource = "custom"
                         /\ t.rate = payConfigSheet[Highest(CustomRateRows(
                                         t.taskType, t.staffName))].customRate
                    ELSE /\ t.rateSource = "default"
                         /\ t.rate = payConfigSheet[Lowest(RateRows(
                                         t.taskType))].defaultRate

\* Two tasks of one type were resolved, one at the custom rate of its staff
\* key and one at the default rate, and the two rates differ.
C13_Witness ==
    \E p \in Procs :
        /\ Calculated(exec[p])
        /\ \E t, u \in TasksOf(exec[p].payments) :
              /\ t.taskType = u.taskType
              /\ t.rateSource = "custom"
              /\ u.rateSource = "default"
              /\ t.rate # u.rate

\* C14: a work item whose task type has no row in Pay Config is a task of
\* exactly one payment, with rate 0 and rateSource "none"; its task type is
\* in errors.unmatchedTaskTypes and a record of it in errors.tasksWithNoRate.
C14_MissingTypeIsKeptAndReported ==
    \A p \in Procs :
        LET e == exec[p]
            w == e.workLogData
        IN  Calculated(e) =>
                \A i \in DOMAIN w :
                    RateRows(w[i].taskType) = {} =>
                        /\ Cardinality(PlacesOf(e.payments, w[i].rowIndex)) = 1
                        /\ \A pl \in PlacesOf(e.payments, w[i].rowIndex) :
                              LET t == e.payments[pl[1]].tasks[pl[2]]
                              IN  /\ t.rate = 0
                                  /\ t.rateSource = "none"
                                  /\ ~t.hasValidRate
                        /\ w[i].taskType \in Range(e.errors.unmatchedTaskTypes)
                        /\ [staffName |-> w[i].staffName,
                            taskType |-> w[i].taskType]
                               \in Range(e.errors.tasksWithNoRate)

\* A list of work items held one whose type has no row in a Pay Config
\* sheet that has rows, next to one whose type has one.
C14_Witness ==
    \E p \in Procs :
        /\ Calculated(exec[p])
        /\ payConfigSheet # <<>>
        /\ \E i, k \in DOMAIN exec[p].workLogData :
              /\ RateRows(exec[p].workLogData[i].taskType) = {}
              /\ RateRows(exec[p].workLogData[k].taskType) # {}

\* The staff sheet read row by row: the rows that map a staff key, and the
\* legal name the last of them gives it, the key itself when there is none.
MappedRows(staffKey) ==
    {i \in DOMAIN staffSheet :
        /\ staffSheet[i].key = staffKey
        /\ staffKey # ""
        /\ staffSheet[i].name # ""}

SheetName(staffKey) ==
    IF MappedRows(staffKey) = {} THEN staffKey
    ELSE staffSheet[Highest(MappedRows(staffKey))].name

\* The first work item, in input order, that resolves to a legal name.
FirstOfName(w, name) ==
    Lowest({i \in DOMAIN w : SheetName(w[i].staffName) = name})

\* C15 as stated: a work item whose staff key has no row in the staff sheet
\* is in a payment whose legalName is the key and whose hasMapping is false,
\* and the key is in errors.unmatchedStaffKeys; every key in
\* errors.unmatchedStaffKeys is the unmapped key of some work item.
C15_UnmatchedKeyOwnRecord ==
    \A p \in Procs :
        LET e == exec[p]
            w == e.workLogData
        IN  Calculated(e) =>
                /\ \A i \in DOMAIN w :
                      MappedRows(w[i].staffName) = {} =>
                          /\ PlacesOf(e.payments, w[i].rowIndex) # {}
                          /\ \A pl \in PlacesOf(e.payments, w[i].rowIndex) :
                                /\ e.payments[pl[1]].legalName = w[i].staffName
                                /\ e.payments[pl[1]].hasMapping = FALSE
                          /\ w[i].staffName \in Range(e.errors.unmatchedStaffKeys)
                /\ \A k \in Range(e.errors.unmatchedStaffKeys) :
                      /\ MappedRows(k) = {}
                      /\ \E i \in DOMAIN w : w[i].staffName = k

\* C15 amended: a work item whose staff key has no row in the staff sheet is
\* in the payment whose legalName is the key, and the key is in
\* errors.unmatchedStaffKeys; the payment's hasMapping is false unless the
\* first work item of that legal name carried a mapped staff key; every key
\* in errors.unmatchedStaffKeys is the unmapped key of some work item.
C15_UnmatchedKeyFallsBack ==
    \A p \in Procs :
        LET e == exec[p]
            w == e.workLogData
        IN  Calculated(e) =>
                /\ \A i \in DOMAIN w :
                      MappedRows(w[i].staffName) = {} =>
                          /\ PlacesOf(e.payments, w[i].rowIndex) # {}
                          /\ \A pl \in PlacesOf(e.payments, w[i].rowIndex) :
                                /\ e.payments[pl[1]].legalName = w[i].staffName
                                /\ e.payments[pl[1]].hasMapping =
                                       (MappedRows(w[FirstOfName(w,
                                           w[i].staffName)].staffName) # {})
                          /\ w[i].staffName \in Range(e.errors.unmatchedStaffKeys)
                /\ \A k \in Range(e.errors.unmatchedStaffKeys) :
                      /\ MappedRows(k) = {}
                      /\ \E i \in DOMAIN w : w[i].staffName = k

\* An unmapped staff key that is another key's legal name joined that
\* name's payment, which has hasMapping true, and another unmapped key has
\* a payment of its own with hasMapping false.
C15_Witness ==
    \E p \in Procs :
        LET e == exec[p]
            w == e.workLogData
        IN  /\ Calculated(e)
            /\ \E i, k \in DOMAIN w :
                  /\ MappedRows(w[i].staffName) = {}
                  /\ MappedRows(w[k].staffName) = {}
                  /\ \E n, m \in DOMAIN e.payments :
                        /\ e.payments[n].legalName = w[i].staffName
                        /\ e.payments[n].hasMapping
                        /\ Len(e.payments[n].tasks) = 2
                        /\ e.payments[m].legalName = w[k].staffName
                        /\ ~e.payments[m].hasMapping

\* C16: two work items whose staff keys resolve to one legal name are tasks
\* of one payment, no two payments have one legal name, and a payment's
\* staffKey and hasMapping are those of the first work item of its name.
C16_GroupedByLegalName ==
    \A p \in Procs :
        LET e == exec[p]
            w == e.workLogData
            pay == e.payments
        IN  Calculated(e) =>
                /\ \A i, k \in DOMAIN w :
                      SheetName(w[i].staffName) = SheetName(w[k].staffName) =>
                          \A a \in PlacesOf(pay, w[i].rowIndex) :
                              \A b \in PlacesOf(pay, w[k].rowIndex) : a[1] = b[1]
                /\ \A n, m \in DOMAIN pay :
                      pay[n].legalName = pay[m].legalName => n = m
                /\ \A n \in DOMAIN pay :
                      /\ pay[n].tasks # <<>>
                      /\ \E i \in DOMAIN w :
                            SheetName(w[i].staffName) = pay[n].legalName
                      /\ LET first == w[FirstOfName(w, pay[n].legalName)]
                         IN  /\ pay[n].tasks[1].rowIndex = first.rowIndex
                             /\ pay[n].staffKey = first.staffName
                             /\ pay[n].hasMapping =
                                    (MappedRows(first.staffName) # {})

\* Two work items with different mapped staff keys are the two tasks of one
\* payment, which has the staff key of the first one.
C16_Witness ==
    \E p \in Procs :
        LET e == exec[p]
        IN  /\ Calculated(e)
            /\ \E n \in DOMAIN e.payments :
                  LET tasks == e.payments[n].tasks
                  IN  /\ Len(tasks) = 2
                      /\ tasks[1].staffName # tasks[2].staffName
                      /\ MappedRows(tasks[1].staffName) # {}
                      /\ MappedRows(tasks[2].staffName) # {}
                      /\ e.payments[n].staffKey = tasks[1].staffName
                      /\ e.payments[n].hasMapping

\* C17: every work item is aggregated, and for a work item with a task type
\* without a rate row, an unmapped staff key, or a rate of 0 (a type whose
\* configured rate is 0 included) the errors hold an entry of that gap.
C17_EveryGapInErrors ==
    \A p \in Procs :
        LET e == exec[p]
            w == e.workLogData
        IN  Calculated(e) =>
                \A i \in DOMAIN w :
                    /\ Cardinality(PlacesOf(e.payments, w[i].rowIndex)) = 1
                    /\ RateRows(w[i].taskType) = {} =>
                           w[i].taskType \in Range(e.errors.unmatchedTaskTypes)
                    /\ MappedRows(w[i].staffName) = {} =>
                           w[i].staffName \in Range(e.errors.unmatchedStaffKeys)
                    /\ SheetRate(w[i].taskType, w[i].staffName) = 0 =>
                           [staffName |-> w[i].staffName,
                            taskType |-> w[i].taskType]
                               \in Range(e.errors.tasksWithNoRate)

\* The work items whose task type has no row in Pay Config, in input order.
NoRateItems(w) == SelectSeq(w, LAMBDA x : RateRows(x.taskType) = {})

NoDuplicates(s) == \A a, b \in DOMAIN s : s[a] = s[b] => a = b

\* C18: errors.tasksWithNoRate holds one record per work item whose task
\* type has no rate row, in input order, duplicates kept;
\* errors.unmatchedTaskTypes and errors.unmatchedStaffKeys hold every
\* offending value once, and no other value.
C18_ErrorCollectionSizes ==
    \A p \in Procs :
        LET e == exec[p]
            w == e.workLogData
            noRate == NoRateItems(w)
        IN  Calculated(e) =>
                /\ e.errors.tasksWithNoRate =
                       [n \in DOMAIN noRate |->
                           [staffName |-> noRate[n].staffName,
                            taskType |-> noRate[n].taskType]]
                /\ NoDuplicates(e.errors.unmatchedTaskTypes)
                /\ Range(e.errors.unmatchedTaskTypes) =
                       {w[i].taskType : i \in {k \in DOMAIN w :
                                                  RateRows(w[k].taskType) = {}}}
                /\ NoDuplicates(e.errors.unmatchedStaffKeys)
                /\ Range(e.errors.unmatchedStaffKeys) =
                       {w[i].staffName : i \in {k \in DOMAIN w :
                                                  MappedRows(w[k].staffName) = {}}}

\* Three work items of one staff key without a mapping, two of them of one
\* task type without a rate row: two equal records in tasksWithNoRate, the
\* type once in unmatchedTaskTypes, the key once in unmatchedStaffKeys.
C18_Witness ==
    \E p \in Procs :
        LET e == exec[p]
        IN  /\ Calculated(e)
            /\ Len(e.workLogData) = 3
            /\ payConfigSheet # <<>>
            /\ Len(e.errors.tasksWithNoRate) = 2
            /\ e.errors.tasksWithNoRate[1] = e.errors.tasksWithNoRate[2]
            /\ Len(e.errors.unmatchedTaskTypes) = 1
            /\ Len(e.errors.unmatchedStaffKeys) = 1
            /\ \A i \in DOMAIN e.workLogData :
                  e.workLogData[i].staffName = e.errors.unmatchedStaffKeys[1]

\* The rows of the Invoicing sheet an execution wrote.
RowsOfRun(run) == {j \in DOMAIN invoicing : invoicing[j].run = run}

\* C19: the rows one invocation of createInvoice wrote carry one invoice
\* number, the invoiceNumber the invocation returned.
C19_OneNumberPerInvocation ==
    /\ \A j, k \in DOMAIN invoicing :
          invoicing[j].run = invoicing[k].run
              => invoicing[j].invoiceNumber = invoicing[k].invoiceNumber
    /\ \A p \in Procs :
          exec[p].invoiceResult # <<>> =>
              \A j \in RowsOfRun(exec[p].run) :
                  invoicing[j].invoiceNumber =
                      exec[p].invoiceResult[1].invoiceNumber

\* An invocation of createInvoice wrote the rows of two payees and returned.
C19_Witness ==
    \E p \in Procs :
        /\ exec[p].invoiceResult # <<>>
        /\ exec[p].invoiceResult[1].rowsCreated = 2
        /\ Cardinality(RowsOfRun(exec[p].run)) = 2
        /\ \E j, k \in RowsOfRun(exec[p].run) :
              invoicing[j].contractor # invoicing[k].contractor

\* C20: rows of the Invoicing sheet with one invoice number were written by
\* one invocation of createInvoice: no two invocations, on one day or on
\* different days, produce the same number.
C20_NumberDistinguishesInvocations ==
    \A j, k \in DOMAIN invoicing :
        invoicing[j].invoiceNumber = invoicing[k].invoiceNumber
            => invoicing[j].run = invoicing[k].run

\* An execution whose createInvoice returned.
Invoiced(e) == e.invoiceResult # <<>>

LegalNamesOf(payments) == {payments[n].legalName : n \in DOMAIN payments}

\* C21: createInvoice writes one row per payment: rowsCreated is the number
\* of distinct legal names of the payments, the rows written are that many,
\* one per legal name, and each lists at least one task.
C21_OneRowPerPayee ==
    \A p \in Procs :
        LET e == exec[p]
            rows == RowsOfRun(e.run)
        IN  Invoiced(e) =>
                /\ e.invoiceResult[1].rowsCreated =
                       Cardinality(LegalNamesOf(e.payments))
                /\ Cardinality(rows) = e.invoiceResult[1].rowsCreated
                /\ {invoicing[j].contractor : j \in rows} =
                       LegalNamesOf(e.payments)
                /\ \A j \in rows :
                      /\ invoicing[j].workDone # <<>>
                      /\ \A n \in DOMAIN invoicing[j].workDone :
                            invoicing[j].workDone[n].count >= 1

\* An invocation wrote two rows for the two payees of two work items and
\* returned rowsCreated 2.
C21_Witness ==
    \E p \in Procs :
        /\ Invoiced(exec[p])
        /\ exec[p].invoiceResult[1].rowsCreated = 2
        /\ Cardinality(RowsOfRun(exec[p].run)) = 2
        /\ Len(exec[p].workLogData) = 2
        /\ Len(invoicing) > 2

\* C22: the work summary of a payment's row has one entry per task type of
\* the payment's tasks, with the number of its tasks of that type, and the
\* counts add up to the number of its tasks.
C22_WorkSummaryCountsTypes ==
    \A p \in Procs :
        LET e == exec[p]
        IN  Invoiced(e) =>
                \A j \in RowsOfRun(e.run) :
                    \A n \in DOMAIN e.payments :
                        e.payments[n].legalName = invoicing[j].contractor =>
                            LET tasks == e.payments[n].tasks
                                wd == invoicing[j].workDone
                            IN  /\ {wd[a].taskType : a \in DOMAIN wd} =
                                       {tasks[m].taskType : m \in DOMAIN tasks}
                                /\ \A a, b \in DOMAIN wd :
                                       wd[a].taskType = wd[b].taskType => a = b
                                /\ \A a \in DOMAIN wd :
                                       wd[a].count =
                                           Cardinality({m \in DOMAIN tasks :
                                               tasks[m].taskType = wd[a].taskType})
                                /\ SumSeq([a \in DOMAIN wd |-> wd[a].count])
                                       = Len(tasks)

\* A row was written for a payee with tasks of two types.
C22_Witness ==
    \E p \in Procs :
        /\ Invoiced(exec[p])
        /\ \E j \in RowsOfRun(exec[p].run) :
              /\ Len(invoicing[j].workDone) = 2
              /\ invoicing[j].workDone[1].taskType
                     # invoicing[j].workDone[2].taskType

\* C23: a preview and a calculateStaffPay that read the same sheets return
\* equal payments: the same payees, the same tasks with the same fields, the
\* same totals.
C23_PreviewEqualsCommitPayments ==
    \A p, q \in Procs :
        (/\ exec[p].op = "preview" /\ exec[p].pc = "done"
         /\ exec[p].result.success
         /\ exec[q].op = "calculateStaffPay" /\ exec[q].pc = "done"
         /\ exec[q].result.success)
            => exec[p].result.payments = exec[q].result.payments

\* The operations C24 names.
SummaryOps == {"preview", "calculatePay", "calculateStaffPay"}

\* C24: a successful result of handleCalculatePayPreviewRequest,
\* handleCalculatePayRequest or calculateStaffPay has a summary with the
\* number of tasks, the number of payees, the grand total, and the three
\* error collections.
C24_SummaryHasCountsAndErrors ==
    \A p \in Procs :
        LET e == exec[p]
        IN  (e.op \in SummaryOps /\ e.pc = "done" /\ e.result.success) =>
                /\ "summary" \in DOMAIN e.result
                /\ {"totalTasks", "totalStaff", "grandTotal", "errors"}
                       \subseteq DOMAIN e.result.summary
                /\ e.result.summary.totalTasks = Len(e.workLogData)
                /\ e.result.summary.totalStaff = Len(e.payments)
                /\ DOMAIN e.result.summary.errors =
                       {"unmatchedTaskTypes", "unmatchedStaffKeys",
                        "tasksWithNoRate"}

\* The operations that start with getUnpaidWorkFromMaster and then
\* calculate: the previews and the commits.
SelectingOps == Ops \ {"getStatus", "createInvoicesAndMarkUI"}

\* C25: an operation that finds no unpaid work returns the message 'No
\* unpaid work found' and no error, writes no invoice row and nothing to
\* MASTER; an operation that found work and failed returns an error and no
\* such message.
C25_NothingToDoIsNotAnError ==
    \A p \in Procs :
        LET e == exec[p]
        IN  (e.op \in SelectingOps /\ e.pc = "done") =>
                /\ e.workLogData = <<>> =>
                      /\ "message" \in DOMAIN e.result
                      /\ e.result.message = "No unpaid work found"
                      /\ "error" \notin DOMAIN e.result
                      /\ e.invoiceResult = <<>>
                      /\ e.wrote = {}
                      /\ RowsOfRun(e.run) = {}
                /\ (e.workLogData # <<>> /\ ~e.result.success) =>
                      /\ "error" \in DOMAIN e.result
                      /\ "message" \notin DOMAIN e.result

\* A commit found no unpaid work in a MASTER sheet with rows, and the Pay
\* Config sheet, which a commit with work would have missed, is not there.
C25_Witness ==
    \E p \in Procs :
        /\ exec[p].op \in {"calculatePay", "postCreateInvoicesAndMark"}
        /\ exec[p].pc = "done"
        /\ exec[p].workLogData = <<>>
        /\ ~exec[p].afterSuccess
        /\ "Pay Config" \notin sheets
        /\ invoicing = <<>>

\* C26: getUnpaidWorkFromMaster reads MASTER, in a preview or a commit, only
\* when the Pay Config sheet and the staff sheet are there: with one missing
\* the operation fails before that.
C26_ConfigCheckedBeforeLedgerRead ==
    [][\A p \in Procs :
          (/\ exec[p].op \in SelectingOps
           /\ exec[p].pc = "select"
           /\ exec'[p].pc # "select")
              => {"Pay Config", "Staff Key to Staff name"} \subseteq sheets]_vars

\* C27: the response of a successful handleCalculatePayRequest has an
\* invoiceInfo with the invoiceNumber and rowsCreated its createInvoice
\* returned.
C27_CommitReturnsInvoiceInfo ==
    \A p \in Procs :
        CommittedOk(exec[p]) =>
            /\ "invoiceInfo" \in DOMAIN exec[p].result
            /\ exec[p].result.invoiceInfo = exec[p].invoiceResult[1]

\* The web requests that select, calculate, invoice and mark in one run.
WebCommitOps == {"calculatePay", "postCreateInvoicesAndMark"}

\* C28: a step of a commit leaves the number of MASTER rows and every
\* row's status, staff key and task type as they are, and changes a Paid
\* cell only to "Invoiced" and only on a row the run selected; when the
\* commit returns success every row it selected is "Invoiced".
C28_CommitMarksSelectedRowsOnly ==
    [][\A p \in Procs :
          (exec[p].op \in WebCommitOps /\ exec'[p] # exec[p]) =>
              /\ Len(master') = Len(master)
              /\ \A k \in DOMAIN master :
                    /\ master'[k].status = master[k].status
                    /\ master'[k].staffName = master[k].staffName
                    /\ master'[k].taskType = master[k].taskType
                    /\ master'[k].paid # master[k].paid =>
                          /\ master'[k].paid = "Invoiced"
                          /\ k + 2 \in RowsOf(exec[p].workLogData)
              /\ (exec'[p].pc = "done" /\ exec'[p].result.success) =>
                    \A k \in DOMAIN master :
                        k + 2 \in RowsOf(exec'[p].workLogData)
                            => master'[k].paid = "Invoiced"]_vars

\* A commit succeeded over a task of rate 0, next to a row that is not done
\* and still has its blank Paid cell.
C28_Witness ==
    \E p \in Procs :
        /\ exec[p].op \in WebCommitOps
        /\ exec[p].pc = "done"
        /\ exec[p].result.success
        /\ \E t \in TasksOf(exec[p].payments) :
              t.rate = 0 /\ master[t.rowIndex - 2].paid = "Invoiced"
        /\ \E k \in DOMAIN master :
              master[k].status = "Open" /\ master[k].paid = ""

\* C29: when createInvoicesAndMarkUI goes on to createInvoice with the
\* stored pending data, every item of it is eligible in MASTER: status
\* "Done", Paid neither "Paid" nor "Invoiced".
C29_PendingItemsStillEligible ==
    \A p \in Procs :
        (exec[p].op = "createInvoicesAndMarkUI" /\ exec[p].pc = "invoiceBegin")
            => \A n \in DOMAIN exec[p].workLogData :
                   LET row == master[exec[p].workLogData[n].rowIndex - 2]
                   IN  /\ row.status = "Done"
                       /\ row.paid \notin {"Paid", "Invoiced"}

\* C30: no step changes or removes a row that is in the Invoicing sheet:
\* createInvoice only appends, also when two invocations overlap.
C30_CreateInvoiceOnlyAppends ==
    [][\A j \in DOMAIN invoicing :
          j \in DOMAIN invoicing' /\ invoicing'[j] = invoicing[j]]_vars

====
